---- MODULE Spec2Model ----
(***************************************************************************)
(* A model of src/main.py: the EventSub chat client.  run() validates the  *)
(* token, opens the websocket, reads the welcome frame, registers the six  *)
(* subscriptions and then loops over the inbound frames.                   *)
(*                                                                         *)
(* Encoding.  Python's None is the string "None".  A text is a sequence of *)
(* one-character strings.  A frame is the parsed JSON object reduced to    *)
(* the fields run() reads.  An exception that leaves run() closes the      *)
(* websocket (async with) and ends the process: state "Closed", error the  *)
(* exception's name.                                                       *)
(***************************************************************************)
EXTENDS Integers, Sequences, FiniteSets, TLC

VARIABLES
    state,             \* where run() is: Validating, Connecting, Handshaking,
                       \* Registering, Listening, Closed
    error,             \* the exception that ended run(), None while it runs
    validate_calls,    \* number of calls of validate_token()
    me_id,             \* token_info["user_id"]
    ws_open,           \* the websocket of `async with websockets.connect`
    connects,          \* number of times the websocket was opened
    welcome_recvs,     \* number of ws.recv() calls made for the welcome frame
    session_id,        \* welcome["payload"]["session"]["id"]
    sub_idx,           \* the next safe_create_sub call of run(), 1..6
    sub_posts,         \* payloads POSTed to SUBSCRIPTION_URL, in order
    sub_outcomes,      \* outcome of every safe_create_sub call, in order
    use_mock,          \* USE_MOCK_EVENTSUB
    seen_message_ids,  \* the set of line 108
    nframes,           \* frames received by the while loop
    last,              \* the frame of the last loop iteration
    last_handler,      \* the elif branch that iteration entered, or None
    handled,           \* per message_id: handler branches entered so far
    message,           \* the message argument of the last send_chat_message
    chat_posts         \* payloads POSTed to /chat/messages, in order

vars == <<state, error, validate_calls, me_id, ws_open, connects,
          welcome_recvs, session_id,
          sub_idx, sub_posts, sub_outcomes, use_mock, seen_message_ids,
          nframes, last, last_handler, handled, message, chat_posts>>

None == "None"

-----------------------------------------------------------------------------
(* Bounds and input sets *)

MaxFrames == 2

PrincipalIds == {"u1", "u2"}

SessionIds == {"abc123", "s2"}

MessageIds == {None, "", "m1", "m2"}

HttpResponses == {"ok", "rejected"}

-----------------------------------------------------------------------------
(* Program constants *)

USE_MOCK_EVENTSUB == 0

MessageLimit == 500

MOCK_UNSUPPORTED_SUBS ==
    {"channel.chat.message", "channel.chat.notification",
     "channel.chat.message_delete", "channel.chat.clear",
     "channel.chat.clear_user_messages"}

Cond(keys, id) == [k \in keys |-> id]

\* The six safe_create_sub calls of run(), in program order.
Catalog(id) ==
    << [type |-> "channel.chat.message", version |-> "1",
        condition |-> Cond({"broadcaster_user_id", "user_id"}, id)],
       [type |-> "channel.subscribe", version |-> "1",
        condition |-> Cond({"broadcaster_user_id"}, id)],
       [type |-> "channel.subscription.message", version |-> "1",
        condition |-> Cond({"broadcaster_user_id"}, id)],
       [type |-> "channel.subscription.gift", version |-> "1",
        condition |-> Cond({"broadcaster_user_id"}, id)],
       [type |-> "channel.cheer", version |-> "1",
        condition |-> Cond({"broadcaster_user_id"}, id)],
       [type |-> "channel.raid", version |-> "1",
        condition |-> Cond({"to_broadcaster_user_id"}, id)] >>

NumSubs == Len(Catalog(None))

\* The subscription types the elif chain of run() has a branch for.
KnownTypes ==
    {"channel.chat.message", "channel.subscribe",
     "channel.subscription.message", "channel.subscription.gift",
     "channel.cheer", "channel.raid"}

PingCommand == <<"!", "p", "i", "n", "g">>

PongReply ==
    <<"p", "o", "n", "g", " ", "(", "v", "i", "a", " ",
      "H", "e", "l", "i", "x", ")">>

-----------------------------------------------------------------------------
(* str.strip(), str.lower(), slicing and truthiness *)

IsSpace(c) == c \in {" ", "\t", "\n"}

RECURSIVE LStrip(_)
LStrip(s) == IF s = <<>> \/ ~IsSpace(Head(s)) THEN s ELSE LStrip(Tail(s))

RECURSIVE RStrip(_)
RStrip(s) ==
    IF s = <<>> \/ ~IsSpace(s[Len(s)]) THEN s
    ELSE RStrip(SubSeq(s, 1, Len(s) - 1))

\* text.strip()
Strip(s) == RStrip(LStrip(s))

LowerChar(c) ==
    CASE c = "P" -> "p"
      [] c = "I" -> "i"
      [] c = "N" -> "n"
      [] c = "G" -> "g"
      [] c = "X" -> "x"
      [] OTHER -> c

\* text.lower()
Lower(s) == [i \in 1..Len(s) |-> LowerChar(s[i])]

\* Mutant: the slice is left out and the whole message is posted.
Slice_Whole(s, n) == s

\* message[:500]
Slice(s, n) == [i \in 1..(IF Len(s) > n THEN n ELSE Len(s)) |-> s[i]]

\* Mutant: the test is `if mid is not None`, so the empty string counts.
Truthy_NotNone(v) == v # None

\* `if mid`: None and the empty string are falsy
Truthy(v) == v # None /\ v # ""

-----------------------------------------------------------------------------
(* Inbound frames *)

Texts ==
    { PingCommand,
      <<" ", " ", "!", "P", "I", "N", "G", " ", " ">>,
      <<"\t", "!", "P", "i", "n", "g", "\n">>,
      <<"!", "p", "i", "n", "g", "x">>,
      <<"!", " ", "p", "i", "n", "g">>,
      <<"p", "i", "n", "g">>,
      <<" ">>,
      <<>> }

\* msg["payload"]["event"] of a frame without that key
NoEvent ==
    [present |-> FALSE, chatter_user_login |-> FALSE, has_text |-> FALSE,
     text |-> <<>>]

\* An event record; the chat handler reads chatter_user_login and
\* message.text by subscript, every other handler reads with .get().
Events ==
    { NoEvent,
      [present |-> TRUE, chatter_user_login |-> FALSE, has_text |-> TRUE,
       text |-> PingCommand],
      [present |-> TRUE, chatter_user_login |-> TRUE, has_text |-> FALSE,
       text |-> <<>>] } \cup
    { [present |-> TRUE, chatter_user_login |-> TRUE, has_text |-> TRUE,
       text |-> t] : t \in Texts }

PlainEvent ==
    [present |-> TRUE, chatter_user_login |-> FALSE, has_text |-> FALSE,
     text |-> <<>>]

MessageTypes == {"session_keepalive", "notification", "session_reconnect", None}

SubscriptionTypes == KnownTypes \cup {"channel.follow", None}

Frames ==
    { [message_type |-> "notification", message_id |-> m,
       subscription_type |-> "channel.chat.message", event |-> e]
        : m \in MessageIds, e \in Events } \cup
    { [message_type |-> "notification", message_id |-> m,
       subscription_type |-> s, event |-> e]
        : m \in MessageIds,
          s \in SubscriptionTypes \ {"channel.chat.message"},
          e \in {NoEvent, PlainEvent} } \cup
    { [message_type |-> k, message_id |-> m,
       subscription_type |-> None, event |-> NoEvent]
        : k \in MessageTypes \ {"notification"}, m \in MessageIds }

NoFrame ==
    [message_type |-> None, message_id |-> None, subscription_type |-> None,
     event |-> NoEvent]

-----------------------------------------------------------------------------
(* The functions of main.py *)

\* The payload create_eventsub_subscription POSTs.
SubPayload(sid, entry) ==
    [type |-> entry.type, version |-> entry.version,
     condition |-> entry.condition,
     transport |-> [method |-> "websocket", session_id |-> sid]]

\* safe_create_sub returns None without a request for these.
SkippedByMock(flag, sub_type) == flag # 0 /\ sub_type \in MOCK_UNSUPPORTED_SUBS

\* The payload send_chat_message POSTs.
ChatPayload(broadcaster_id, sender_id, msg) ==
    [broadcaster_id |-> broadcaster_id, sender_id |-> sender_id,
     message |-> Slice(msg, MessageLimit)]

\* send_chat_message(broadcaster_id, sender_id, message) up to its POST.
send_chat_message(broadcaster_id, sender_id, msg) ==
    /\ message' = msg
    /\ chat_posts' =
          Append(chat_posts, ChatPayload(broadcaster_id, sender_id, msg))

\* Mutant: every frame that is no notification is skipped like a keepalive.
IsKeepalive_AnyOther(mtype) == mtype # "notification"

\* Mutant: the keepalive check is missing, so a keepalive goes on to dedup.
IsKeepalive_Never(mtype) == FALSE

\* `if mtype == "session_keepalive": continue`
IsKeepalive(mtype) == mtype = "session_keepalive"

\* `if mid and mid in seen_message_ids: continue`
IsDuplicate(mid, seen) == Truthy(mid) /\ mid \in seen

\* Mutant: the id is never added to the set.
Remember_Forgets(mid, seen) == seen

\* `if mid: seen_message_ids.add(mid)`
Remember(mid, seen) == IF Truthy(mid) THEN seen \cup {mid} ELSE seen

\* Mutant: the id is added after the handlers, so not when one raises.
SeenAfter_HandlerFirst(mid, seen, exc) ==
    IF exc = None THEN Remember(mid, seen) ELSE seen

\* seen_message_ids after an iteration that got past the duplicate check:
\* the add of line 175 comes before the handlers, so it has happened
\* whatever exception exc the iteration ends with.
SeenAfter(mid, seen, exc) == Remember(mid, seen)

\* Mutant: the raid branch tests the cheer type a second time, so a raid
\* enters no branch.
Dispatch_RaidUnreached(sub_type) ==
    IF sub_type \in KnownTypes \ {"channel.raid"} THEN sub_type ELSE None

\* Mutant: the chain ends in an else that treats any other type as a raid.
Dispatch_Default(sub_type) ==
    IF sub_type \in KnownTypes THEN sub_type ELSE "channel.raid"

\* The elif chain: the branch entered for sub_type, None when none is.
Dispatch(sub_type) == IF sub_type \in KnownTypes THEN sub_type ELSE None

\* Mutant: the text is compared without strip().
IsPing_NoStrip(text) == Lower(text) = PingCommand

\* `text.strip().lower() == "!ping"`
IsPing(text) == Lower(Strip(text)) = PingCommand

-----------------------------------------------------------------------------
(* run() *)

Init ==
    /\ state = "Validating"
    /\ error = None
    /\ validate_calls = 0
    /\ me_id = None
    /\ ws_open = FALSE
    /\ connects = 0
    /\ welcome_recvs = 0
    /\ session_id = None
    /\ sub_idx = 1
    /\ sub_posts = <<>>
    /\ sub_outcomes = <<>>
    /\ use_mock = USE_MOCK_EVENTSUB
    /\ seen_message_ids = {}
    /\ nframes = 0
    /\ last = NoFrame
    /\ last_handler = None
    /\ handled = [m \in MessageIds |-> 0]
    /\ message = <<>>
    /\ chat_posts = <<>>

\* Mutant: the websocket is opened without `async with`, so an exception
\* leaves it open.
Raise_LeaksSocket(exc) ==
    /\ state' = "Closed"
    /\ error' = exc
    /\ ws_open' = ws_open

\* An exception leaves run(): `async with` closes the websocket and
\* asyncio.run re-raises it, which ends the process.
Raise(exc) ==
    /\ state' = "Closed"
    /\ error' = exc
    /\ ws_open' = FALSE

\* Mutant: validate_token without raise_for_status, and the user id read
\* with .get(): run() goes on without a validated user.
ValidateToken_Unchecked ==
    /\ state = "Validating"
    /\ validate_calls' = validate_calls + 1
    /\ \E resp \in HttpResponses, user_id \in PrincipalIds \cup {None} :
          /\ me_id' = IF resp = "ok" THEN user_id ELSE None
          /\ state' = "Connecting"
          /\ UNCHANGED <<error, ws_open>>
    /\ UNCHANGED <<connects, welcome_recvs, session_id, sub_idx, sub_posts, sub_outcomes,
                   use_mock, seen_message_ids, nframes, last, last_handler,
                   handled, message, chat_posts>>

\* token_info = validate_token(); me_id = token_info["user_id"]
ValidateToken ==
    /\ state = "Validating"
    /\ validate_calls' = validate_calls + 1
    /\ \E resp \in HttpResponses, user_id \in PrincipalIds \cup {None} :
          IF resp # "ok" THEN Raise("HTTPError") /\ me_id' = me_id
          ELSE IF user_id = None THEN Raise("KeyError") /\ me_id' = me_id
          ELSE /\ me_id' = user_id
               /\ state' = "Connecting"
               /\ UNCHANGED <<error, ws_open>>
    /\ UNCHANGED <<connects, welcome_recvs, session_id, sub_idx, sub_posts, sub_outcomes,
                   use_mock, seen_message_ids, nframes, last, last_handler,
                   handled, message, chat_posts>>

\* async with websockets.connect(WS_URL) as ws
Connect ==
    /\ state = "Connecting"
    /\ \E ok \in BOOLEAN :
          IF ok
          THEN /\ ws_open' = TRUE
               /\ connects' = connects + 1
               /\ state' = "Handshaking"
               /\ error' = error
          ELSE Raise("OSError") /\ connects' = connects
    /\ UNCHANGED <<validate_calls, me_id, welcome_recvs, session_id, sub_idx, sub_posts,
                   sub_outcomes, use_mock, seen_message_ids, nframes, last,
                   last_handler, handled, message, chat_posts>>

\* What the first ws.recv() can give: the connection closes, the text is
\* not JSON, the object has no payload.session.id, or it has one.  The
\* message_type of the frame is not looked at.
Welcomes ==
    { [kind |-> k, id |-> None]
        : k \in {"ConnectionClosed", "JSONDecodeError", "KeyError"} } \cup
    { [kind |-> "ok", id |-> s] : s \in SessionIds }

\* Mutant: a welcome frame that does not parse or has no session id is
\* dropped and the next frame is awaited.
Handshake_Retries ==
    /\ state = "Handshaking"
    /\ welcome_recvs' = welcome_recvs + 1
    /\ \E w \in Welcomes :
          IF w.kind = "ConnectionClosed"
          THEN Raise(w.kind) /\ session_id' = session_id
          ELSE IF w.kind # "ok"
          THEN UNCHANGED <<state, error, ws_open, session_id>>
          ELSE /\ session_id' = w.id
               /\ state' = "Registering"
               /\ UNCHANGED <<error, ws_open>>
    /\ UNCHANGED <<validate_calls, me_id, connects, sub_idx, sub_posts,
                   sub_outcomes, use_mock, seen_message_ids, nframes, last,
                   last_handler, handled, message, chat_posts>>

\* welcome_raw = await ws.recv() ... session_id = welcome[...]["id"]
Handshake ==
    /\ state = "Handshaking"
    /\ welcome_recvs' = welcome_recvs + 1
    /\ \E w \in Welcomes :
          IF w.kind # "ok" THEN Raise(w.kind) /\ session_id' = session_id
          ELSE /\ session_id' = w.id
               /\ state' = "Registering"
               /\ UNCHANGED <<error, ws_open>>
    /\ UNCHANGED <<validate_calls, me_id, connects, sub_idx, sub_posts,
                   sub_outcomes, use_mock, seen_message_ids, nframes, last,
                   last_handler, handled, message, chat_posts>>

\* The sub_idx-th safe_create_sub call of run().  A response that is not
\* OK raises RuntimeError in create_eventsub_subscription, and nothing in
\* run() catches it.
Subscribe ==
    /\ state = "Registering"
    /\ LET entry == Catalog(me_id)[sub_idx]
           Continue ==
               /\ sub_idx' = sub_idx + 1
               /\ state' = IF sub_idx = NumSubs THEN "Listening"
                           ELSE "Registering"
               /\ UNCHANGED <<error, ws_open>>
       IN IF SkippedByMock(use_mock, entry.type)
          THEN /\ sub_posts' = sub_posts
               /\ sub_outcomes' = Append(sub_outcomes, "skipped")
               /\ Continue
          ELSE /\ sub_posts' = Append(sub_posts, SubPayload(session_id, entry))
               /\ \E resp \in HttpResponses :
                     IF resp = "ok"
                     THEN /\ sub_outcomes' = Append(sub_outcomes, "ok")
                          /\ Continue
                     ELSE /\ sub_outcomes' = Append(sub_outcomes, "error")
                          /\ sub_idx' = sub_idx
                          /\ Raise("RuntimeError")
    /\ UNCHANGED <<validate_calls, me_id, connects, welcome_recvs,
                   session_id, use_mock,
                   seen_message_ids, nframes, last, last_handler, handled,
                   message, chat_posts>>

\* One iteration of `while True` on a frame that parses: keepalive check,
\* dedup, dispatch, handler, and the send_chat_message call of the chat
\* handler with its response.
RecvFrame ==
    /\ state = "Listening"
    /\ nframes < MaxFrames
    /\ \E f \in Frames, resp \in HttpResponses :
          LET mid == f.message_id
              keepalive == IsKeepalive(f.message_type)
              duplicate == ~keepalive /\ IsDuplicate(mid, seen_message_ids)
              routed == ~keepalive /\ ~duplicate
              notification == routed /\ f.message_type = "notification"
              \* event = msg["payload"]["event"]
              no_event == notification /\ ~f.event.present
              branch == IF notification /\ ~no_event
                        THEN Dispatch(f.subscription_type) ELSE None
              chat == branch = "channel.chat.message"
              \* event["chatter_user_login"], event["message"]["text"]
              no_field == chat /\ (~f.event.chatter_user_login
                                   \/ ~f.event.has_text)
              ping == chat /\ ~no_field /\ IsPing(f.event.text)
              exc == IF no_event \/ no_field THEN "KeyError"
                     ELSE IF ping /\ resp # "ok" THEN "HTTPError"
                     ELSE None
          IN /\ nframes' = nframes + 1
             /\ last' = f
             /\ last_handler' = branch
             /\ seen_message_ids' =
                   IF routed THEN SeenAfter(mid, seen_message_ids, exc)
                   ELSE seen_message_ids
             /\ handled' = IF branch # None
                           THEN [handled EXCEPT ![mid] = @ + 1]
                           ELSE handled
             /\ IF ping
                THEN send_chat_message(me_id, me_id, PongReply)
                ELSE UNCHANGED <<message, chat_posts>>
             /\ IF exc # None THEN Raise(exc)
                ELSE UNCHANGED <<state, error, ws_open>>
    /\ UNCHANGED <<validate_calls, me_id, connects, welcome_recvs,
                   session_id, sub_idx,
                   sub_posts, sub_outcomes, use_mock>>

\* raw = await ws.recv() gives text that json.loads rejects.
RecvInvalid ==
    /\ state = "Listening"
    /\ Raise("JSONDecodeError")
    /\ UNCHANGED <<validate_calls, me_id, connects, welcome_recvs,
                   session_id, sub_idx,
                   sub_posts, sub_outcomes, use_mock, seen_message_ids,
                   nframes, last, last_handler, handled, message, chat_posts>>

\* Mutant: run() is wrapped in a loop that connects again after a drop.
ConnectionDrop_Reconnects ==
    /\ state = "Listening"
    /\ state' = "Connecting"
    /\ error' = "ConnectionClosed"
    /\ ws_open' = FALSE
    /\ UNCHANGED <<validate_calls, me_id, connects, welcome_recvs,
                   session_id, sub_idx, sub_posts, sub_outcomes, use_mock,
                   seen_message_ids, nframes, last, last_handler, handled,
                   message, chat_posts>>

\* raw = await ws.recv() while the connection drops.
ConnectionDrop ==
    /\ state = "Listening"
    /\ Raise("ConnectionClosed")
    /\ UNCHANGED <<validate_calls, me_id, connects, welcome_recvs,
                   session_id, sub_idx,
                   sub_posts, sub_outcomes, use_mock, seen_message_ids,
                   nframes, last, last_handler, handled, message, chat_posts>>

\* The task is cancelled at one of its awaits (asyncio.run on SIGINT).
Shutdown ==
    /\ state \in {"Connecting", "Handshaking", "Listening"}
    /\ Raise("CancelledError")
    /\ UNCHANGED <<validate_calls, me_id, connects, welcome_recvs,
                   session_id, sub_idx,
                   sub_posts, sub_outcomes, use_mock, seen_message_ids,
                   nframes, last, last_handler, handled, message, chat_posts>>

Next ==
    \/ ValidateToken
    \/ Connect
    \/ Handshake
    \/ Subscribe
    \/ RecvFrame
    \/ RecvInvalid
    \/ ConnectionDrop
    \/ Shutdown

Spec == Init /\ [][Next]_vars

\* The steps that need nothing from the peer but a reply to a request made
\* with timeout=20 are taken: validate_token, websockets.connect and the
\* safe_create_sub calls end.  A ws.recv() has no timeout and waits for a
\* frame for as long as none comes, so Handshake and RecvFrame are not fair.
SpecFair ==
    /\ Spec
    /\ WF_vars(ValidateToken)
    /\ WF_vars(Connect)
    /\ WF_vars(Subscribe)

\* run() for either value of the USE_MOCK_EVENTSUB switch of line 20.
MockInit ==
    /\ state = "Validating"
    /\ error = None
    /\ validate_calls = 0
    /\ me_id = None
    /\ ws_open = FALSE
    /\ connects = 0
    /\ welcome_recvs = 0
    /\ session_id = None
    /\ sub_idx = 1
    /\ sub_posts = <<>>
    /\ sub_outcomes = <<>>
    /\ use_mock \in {0, 1}
    /\ seen_message_ids = {}
    /\ nframes = 0
    /\ last = NoFrame
    /\ last_handler = None
    /\ handled = [m \in MessageIds |-> 0]
    /\ message = <<>>
    /\ chat_posts = <<>>

SpecMock == MockInit /\ [][Next]_vars

-----------------------------------------------------------------------------
(* send_chat_message on its own, for texts around the limit *)

MaxNear == 3

MaxSends == 1

Chars == <<"a", "b", "c">>

Text(n, k) == [i \in 1..n |-> Chars[((i * k) % 3) + 1]]

Messages ==
    { Text(n, k) : n \in (0..MaxNear) \cup
                         ((MessageLimit - MaxNear)..(MessageLimit + MaxNear)),
                   k \in 1..3 } \cup {PongReply}

SendInit ==
    /\ state = "Listening"
    /\ error = None
    /\ validate_calls = 1
    /\ me_id \in PrincipalIds
    /\ ws_open = TRUE
    /\ connects = 1
    /\ welcome_recvs = 1
    /\ session_id \in SessionIds
    /\ sub_idx = NumSubs + 1
    /\ sub_posts = [i \in 1..NumSubs |-> SubPayload(session_id, Catalog(me_id)[i])]
    /\ sub_outcomes = [i \in 1..NumSubs |-> "ok"]
    /\ use_mock = USE_MOCK_EVENTSUB
    /\ seen_message_ids = {}
    /\ nframes = 0
    /\ last = NoFrame
    /\ last_handler = None
    /\ handled = [m \in MessageIds |-> 0]
    /\ message = <<>>
    /\ chat_posts = <<>>

\* A call send_chat_message(me_id, me_id, msg) with its response:
\* r.raise_for_status() raises HTTPError for a response that is not OK.
SendChatMessage ==
    /\ state = "Listening"
    /\ Len(chat_posts) < MaxSends
    /\ \E msg \in Messages, resp \in HttpResponses :
          /\ send_chat_message(me_id, me_id, msg)
          /\ IF resp # "ok" THEN Raise("HTTPError")
             ELSE UNCHANGED <<state, error, ws_open>>
    /\ UNCHANGED <<validate_calls, me_id, connects, welcome_recvs,
                   session_id, sub_idx,
                   sub_posts, sub_outcomes, use_mock, seen_message_ids,
                   nframes, last, last_handler, handled>>

SendNext == SendChatMessage

SpecSend == SendInit /\ [][SendNext]_vars

-----------------------------------------------------------------------------
(* Properties *)

\* Steps of the while loop that received a frame; the frame is last'.
Received == nframes' = nframes + 1

\* The registrar is over: the handshake gave a session id and run() is
\* past its safe_create_sub calls, or an exception left them.
RegistrarOver == session_id # None /\ state # "Registering"

\* C1 (as amended): for every non-empty message_id m, the frames carrying m
\* enter at most one handler branch in a session, and an id whose frame was
\* handled is in seen_message_ids.  A notification of a known type carrying
\* m is handled when no frame carrying m was recorded before, so that the
\* count for m is one, and it is suppressed when one was, so that the
\* counts stay as they are.
C1_AtMostOneHandlerPerId ==
    /\ [](\A m \in MessageIds :
            (m # None /\ m # "") =>
                /\ handled[m] <= 1
                /\ (handled[m] = 1 => m \in seen_message_ids))
    /\ [][(/\ Received
            /\ last'.message_type = "notification"
            /\ last'.subscription_type \in
                  {"channel.chat.message", "channel.subscribe",
                   "channel.subscription.message",
                   "channel.subscription.gift", "channel.cheer",
                   "channel.raid"}
            /\ last'.event.present
            /\ last'.message_id \notin {None, ""})
              => IF last'.message_id \in seen_message_ids
                 THEN handled' = handled /\ chat_posts' = chat_posts
                 ELSE /\ handled[last'.message_id] = 0
                      /\ handled'[last'.message_id] = 1]_vars

\* C1 witness: a notification of a known type carrying m1 arrives after m1
\* was handled once, and is suppressed.
C1_Witness ==
    /\ state = "Listening"
    /\ nframes = 2
    /\ last.message_type = "notification"
    /\ last.message_id = "m1"
    /\ last.subscription_type = "channel.chat.message"
    /\ last.event.present /\ last.event.text = PingCommand
    /\ last_handler = None
    /\ handled["m1"] = 1
    /\ Len(chat_posts) = 1

\* C1 as stated: for every message_id m, the empty string included, the
\* frames carrying m enter at most one handler branch.
C1_Original == \A m \in MessageIds : m # None => handled[m] <= 1

\* C2 as stated: when the registrar is over there is one outcome per
\* catalog entry, also after a rejected entry.
C2_Claim == RegistrarOver => Len(sub_outcomes) = NumSubs

\* C3 as stated: an iteration whose handler calls send_chat_message leaves
\* the session in Listening, whatever the response of the call.
C3_Claim ==
    [][(Received /\ Len(chat_posts') = Len(chat_posts) + 1)
          => state' = "Listening"]_vars

\* C4: an iteration on a keepalive frame, with or without a message_id,
\* leaves seen_message_ids unchanged, enters no handler branch, posts no
\* chat message, and leaves every id as suppressed or not as it was.
C4_KeepaliveTransparent ==
    [][(Received /\ last'.message_type = "session_keepalive")
          => /\ seen_message_ids' = seen_message_ids
             /\ last_handler' = None
             /\ handled' = handled
             /\ chat_posts' = chat_posts
             /\ state' = "Listening"
             /\ \A m \in MessageIds :
                   (m \in seen_message_ids') <=> (m \in seen_message_ids)]_vars

\* C4 witness: a keepalive frame carrying m1 was received and m1 is not
\* recorded.
C4_Witness ==
    /\ state = "Listening"
    /\ nframes >= 1
    /\ last.message_type = "session_keepalive"
    /\ last.message_id = "m1"
    /\ "m1" \notin seen_message_ids

\* C5 as stated: when the registrar is over, the requests issued are those
\* of the six catalog entries, in catalog order, each with the session id
\* of the handshake and the validated user id.
C5_Claim ==
    RegistrarOver =>
        sub_posts = [i \in 1..NumSubs |->
                        SubPayload(session_id, Catalog(me_id)[i])]

\* C6: an iteration on a notification frame that has its payload.event and
\* whose subscription_type is none of the six known ones enters no handler
\* branch, posts no chat message, raises nothing and stays in Listening.
C6_UnknownTypeTolerated ==
    [][(/\ Received
        /\ last'.message_type = "notification"
        /\ last'.event.present
        /\ last'.subscription_type \notin
              {"channel.chat.message", "channel.subscribe",
               "channel.subscription.message", "channel.subscription.gift",
               "channel.cheer", "channel.raid"})
          => /\ last_handler' = None
             /\ handled' = handled
             /\ chat_posts' = chat_posts
             /\ error' = None
             /\ state' = "Listening"]_vars

\* C6 witness: a first delivery of a channel.follow notification was
\* received and the session is listening.
C6_Witness ==
    /\ state = "Listening"
    /\ nframes = 1
    /\ last.message_type = "notification"
    /\ last.subscription_type = "channel.follow"
    /\ last.event.present
    /\ last.message_id = "m1"
    /\ "m1" \in seen_message_ids
    /\ last_handler = None

\* C7: the text send_chat_message posts is the first min(len, 500)
\* characters of its argument: exactly 500 characters for a longer
\* argument, the argument itself otherwise.
C7_Truncation ==
    chat_posts # <<>> =>
        LET sent == chat_posts[Len(chat_posts)].message
            n == IF Len(message) < 500 THEN Len(message) ELSE 500
        IN /\ Len(sent) = n
           /\ \A i \in 1..n : sent[i] = message[i]
           /\ (Len(message) > 500 => Len(sent) = 500)
           /\ (Len(message) <= 500 => sent = message)

\* C7 witness: a text of 501 characters was posted as 500 characters.
C7_Witness ==
    /\ chat_posts # <<>>
    /\ Len(message) = 501
    /\ Len(chat_posts[1].message) = 500

\* The texts of the model that are "!ping" after strip() and lower().
PingTexts ==
    { <<"!", "p", "i", "n", "g">>,
      <<" ", " ", "!", "P", "I", "N", "G", " ", " ">>,
      <<"\t", "!", "P", "i", "n", "g", "\n">> }

\* C8: a step posts a chat message exactly when it is an iteration on a
\* chat-message notification that is no duplicate, has its fields, and has
\* a text that is "!ping" once trimmed and lower-cased; it then posts one
\* message, the fixed reply, from and to the validated user.
C8_SendExactlyOnPing ==
    [][/\ chat_posts' # chat_posts <=>
             /\ Received
             /\ last'.message_type = "notification"
             /\ last'.subscription_type = "channel.chat.message"
             /\ ~(last'.message_id \notin {None, ""}
                    /\ last'.message_id \in seen_message_ids)
             /\ last'.event.present
             /\ last'.event.chatter_user_login
             /\ last'.event.has_text
             /\ last'.event.text \in PingTexts
       /\ chat_posts' # chat_posts =>
             chat_posts' =
                Append(chat_posts,
                       [broadcaster_id |-> me_id, sender_id |-> me_id,
                        message |-> <<"p", "o", "n", "g", " ", "(", "v", "i",
                                      "a", " ", "H", "e", "l", "i", "x", ")">>])
      ]_vars

\* C8 witness: the chat text "  !PING  " was received and answered once.
C8_Witness ==
    /\ nframes = 1
    /\ last.subscription_type = "channel.chat.message"
    /\ last.event.text = <<" ", " ", "!", "P", "I", "N", "G", " ", " ">>
    /\ Len(chat_posts) = 1
    /\ chat_posts[1].message = PongReply

\* C9: validate_token is called at most once; the websocket is opened, a
\* welcome frame read, a subscription posted or a frame received only after
\* one call that gave a user id; and after a call that gave none run() has
\* ended at once, with the websocket never opened.
C9_ValidationFirst ==
    /\ validate_calls <= 1
    /\ (state = "Validating" <=> validate_calls = 0)
    /\ (\/ state \in {"Connecting", "Handshaking", "Registering", "Listening"}
        \/ ws_open
        \/ connects > 0
        \/ session_id # None
        \/ sub_posts # <<>>
        \/ nframes > 0)
          => (validate_calls = 1 /\ me_id \in PrincipalIds)
    /\ (validate_calls = 1 /\ me_id = None)
          => /\ state = "Closed"
             /\ error \in {"HTTPError", "KeyError"}
             /\ ~ws_open
             /\ connects = 0

\* C9 witness: a frame was received in a session whose token was validated.
C9_Witness ==
    /\ state = "Listening"
    /\ ws_open
    /\ nframes > 0
    /\ validate_calls = 1
    /\ me_id = "u2"

\* C10 as stated: the session leaves Registering only for Listening.
C10_Claim ==
    [][state = "Registering" => state' \in {"Registering", "Listening"}]_vars


\* C11 as stated: the session does not stay in Handshaking forever, also
\* when no welcome frame ever arrives.
C11_Claim == (state = "Handshaking") ~> (state # "Handshaking")

\* C12 (as amended): only a keepalive frame is kept out of the dedup
\* bookkeeping.  An iteration on a frame that is no notification enters no
\* handler branch; it leaves seen_message_ids unchanged when the frame is a
\* keepalive or carries no id, and adds the id of any other such frame.
C12_OnlyKeepaliveUnrecorded ==
    [][(Received /\ last'.message_type # "notification")
          => /\ last_handler' = None
             /\ handled' = handled
             /\ chat_posts' = chat_posts
             /\ seen_message_ids' =
                   IF \/ last'.message_type = "session_keepalive"
                      \/ last'.message_id \in {None, ""}
                   THEN seen_message_ids
                   ELSE seen_message_ids \cup {last'.message_id}]_vars

\* C12 witness: a session_reconnect frame carrying m1 was received and m1
\* is recorded, so a later notification carrying m1 is suppressed.
C12_Witness ==
    /\ state = "Listening"
    /\ nframes = 1
    /\ last.message_type = "session_reconnect"
    /\ last.message_id = "m1"
    /\ seen_message_ids = {"m1"}
    /\ IsDuplicate("m1", seen_message_ids)

\* C12 as stated: an iteration on a frame that is no notification never
\* adds an id to seen_message_ids.
C12_Original ==
    [][(Received /\ last'.message_type # "notification")
          => seen_message_ids' = seen_message_ids]_vars

\* C13: at most one ws.recv() is made for the welcome frame, and when it
\* gave no session id run() has ended with the websocket closed, without a
\* subscription request, a loop iteration, a handler or a chat message;
\* the registrar and the loop run only after the one receive that gave an
\* id.
C13_HandshakeOnceAndFatal ==
    /\ welcome_recvs <= 1
    /\ (welcome_recvs = 1 /\ session_id = None)
          => /\ state = "Closed"
             /\ ~ws_open
             /\ error \in {"ConnectionClosed", "JSONDecodeError", "KeyError"}
             /\ connects = 1
             /\ sub_posts = <<>>
             /\ sub_outcomes = <<>>
             /\ nframes = 0
             /\ \A m \in MessageIds : handled[m] = 0
             /\ chat_posts = <<>>
    /\ state \in {"Registering", "Listening"}
          => (welcome_recvs = 1 /\ session_id \in SessionIds)

\* C13 witness: the first frame had no payload.session.id and run() ended.
C13_Witness ==
    /\ state = "Closed"
    /\ welcome_recvs = 1
    /\ connects = 1
    /\ session_id = None
    /\ error = "KeyError"


\* C14: the websocket is open only while run() is in Handshaking,
\* Registering or Listening; once run() has ended, whatever ended it, the
\* websocket is closed.
C14_ClosedOnEveryExit ==
    /\ state = "Closed" => ~ws_open
    /\ ws_open => state \in {"Handshaking", "Registering", "Listening"}
    /\ state \in {"Handshaking", "Registering", "Listening"} => ws_open

\* C14 witness: the task was cancelled while listening, after the
\* websocket had been opened, and the websocket is closed.
C14_Witness ==
    /\ state = "Closed"
    /\ error = "CancelledError"
    /\ connects = 1
    /\ session_id # None
    /\ sub_idx = NumSubs + 1
    /\ ~ws_open

\* C15: the websocket is opened at most once, and from Closed no step
\* opens it, receives a frame, posts a subscription, enters a handler or
\* posts a chat message: run() stays ended.
C15_ClosedIsTerminal ==
    /\ [](connects <= 1)
    /\ [][state = "Closed"
            => /\ state' = "Closed"
               /\ ~ws_open'
               /\ connects' = connects
               /\ welcome_recvs' = welcome_recvs
               /\ nframes' = nframes
               /\ sub_posts' = sub_posts
               /\ handled' = handled
               /\ chat_posts' = chat_posts]_vars

\* C15 witness: the connection dropped while listening and run() ended.
C15_Witness ==
    /\ state = "Closed"
    /\ error = "ConnectionClosed"
    /\ connects = 1
    /\ nframes >= 1
    /\ ~ws_open

\* C16: an iteration on a notification that has its payload.event, is no
\* duplicate and has one of the six known types enters the branch of that
\* type and no other; an iteration on a frame that is neither a keepalive
\* nor a notification enters none.
C16_OneMatchingHandler ==
    [][/\ (/\ Received
           /\ last'.message_type = "notification"
           /\ last'.event.present
           /\ last'.subscription_type \in
                 {"channel.chat.message", "channel.subscribe",
                  "channel.subscription.message", "channel.subscription.gift",
                  "channel.cheer", "channel.raid"}
           /\ ~(last'.message_id \notin {None, ""}
                  /\ last'.message_id \in seen_message_ids))
             => /\ last_handler' = last'.subscription_type
                /\ handled' =
                      [handled EXCEPT ![last'.message_id] = @ + 1]
       /\ (/\ Received
           /\ last'.message_type \notin {"session_keepalive", "notification"})
             => /\ last_handler' = None
                /\ handled' = handled
                /\ chat_posts' = chat_posts]_vars

\* C16 witness: a raid notification carrying m2 entered the raid branch.
C16_Witness ==
    /\ state = "Listening"
    /\ last.message_type = "notification"
    /\ last.subscription_type = "channel.raid"
    /\ last.message_id = "m2"
    /\ last_handler = "channel.raid"
    /\ handled["m2"] = 1


\* C17 as stated: when the registrar is over every catalog entry has its
\* outcome; with the mock switch set an entry of the skip subset has the
\* outcome "skipped" and no request, and every other entry, and with the
\* switch clear every entry, has its request.
C17_Claim ==
    RegistrarOver =>
        /\ Len(sub_outcomes) = NumSubs
        /\ \A i \in 1..NumSubs :
              LET entry == Catalog(me_id)[i]
                  posted == \E j \in 1..Len(sub_posts) :
                               sub_posts[j] = SubPayload(session_id, entry)
              IN IF use_mock # 0 /\ entry.type \in MOCK_UNSUPPORTED_SUBS
                 THEN sub_outcomes[i] = "skipped" /\ ~posted
                 ELSE sub_outcomes[i] \in {"ok", "error"} /\ posted

\* C18 as stated: an iteration on a notification of a known type whose
\* event lacks a field the handler reads raises nothing and stays in
\* Listening, for the chat-message type as for the others.
C18_Claim ==
    [][(/\ Received
        /\ last'.message_type = "notification"
        /\ last'.subscription_type \in KnownTypes
        /\ last'.event.present
        /\ (~last'.event.chatter_user_login \/ ~last'.event.has_text))
          => (error' = None /\ state' = "Listening")]_vars

\* C19: an iteration that entered a handler branch for a frame carrying a
\* non-empty message_id leaves that id in seen_message_ids, also when the
\* handler or its send_chat_message call raised and ended run(); so every
\* id with a handled frame is recorded.
C19_RecordedBeforeHandler ==
    /\ [][(/\ Received
           /\ last_handler' # None \/ chat_posts' # chat_posts
           /\ last'.message_id \notin {None, ""})
             => last'.message_id \in seen_message_ids']_vars
    /\ [](\A m \in MessageIds :
             (m \notin {None, ""} /\ handled[m] > 0)
                => m \in seen_message_ids)

\* C19 witness: the chat handler for the frame carrying m1 posted the reply,
\* the POST was rejected, run() ended, and m1 is recorded.
C19_Witness ==
    /\ state = "Closed"
    /\ error = "HTTPError"
    /\ last.message_id = "m1"
    /\ last_handler = "channel.chat.message"
    /\ Len(chat_posts) = 1
    /\ handled["m1"] = 1
    /\ "m1" \in seen_message_ids

\* C20: seen_message_ids never holds None or the empty string; an
\* iteration on a notification without a message_id, or with the empty
\* one, leaves the set unchanged, enters the branch of its type when the
\* type is known and the frame has its payload.event, and posts the reply
\* when it is a chat message whose text is "!ping" once trimmed and
\* lower-cased, however often that frame was delivered before.
C20_EmptyIdNeverSuppressed ==
    /\ [](None \notin seen_message_ids /\ "" \notin seen_message_ids)
    /\ [][(/\ Received
           /\ last'.message_type = "notification"
           /\ last'.message_id \in {None, ""})
             => /\ seen_message_ids' = seen_message_ids
                /\ (/\ last'.event.present
                    /\ last'.subscription_type \in
                          {"channel.chat.message", "channel.subscribe",
                           "channel.subscription.message",
                           "channel.subscription.gift", "channel.cheer",
                           "channel.raid"})
                      => /\ last_handler' = last'.subscription_type
                         /\ handled'[last'.message_id] =
                               handled[last'.message_id] + 1
                /\ (/\ last'.subscription_type = "channel.chat.message"
                    /\ last'.event.present
                    /\ last'.event.chatter_user_login
                    /\ last'.event.has_text
                    /\ last'.event.text \in PingTexts)
                      => Len(chat_posts') = Len(chat_posts) + 1]_vars

\* C20 witness: the chat notification "!ping" with the empty message_id
\* was delivered twice and answered twice.
C20_Witness ==
    /\ nframes = 2
    /\ last.message_type = "notification"
    /\ last.message_id = ""
    /\ last.event.text = PingCommand
    /\ handled[""] = 2
    /\ Len(chat_posts) = 2
    /\ seen_message_ids = {}

====
